---- MODULE Spec2Model ----
(***************************************************************************)
(* State-machine model of train_chess_model.py: the ChessDataset class     *)
(* (construction, CSV chunk reading, iteration), ChessModel.forward (only  *)
(* its effect on the shape of its argument), and the training script       *)
(* (setup checks, epoch loop, log, checkpoints, overfitting test).         *)
(***************************************************************************)
EXTENDS Integers, Sequences, FiniteSets, TLC

(***************************************************************************)
(* Bounds of the model.                                                    *)
(***************************************************************************)
MaxEpochs == 3        \* largest NUMBER_OF_EPOCHS of a modelled run
MaxTrain == 3         \* largest TRAIN_DATASET_LENGTH
MaxTest == 2          \* largest TEST_DATASET_LENGTH
MaxChunk == 2         \* largest CHUNK_SIZE
MaxBlank == 3         \* most blank lines at the head of the CSV file
MaxLines == 5         \* most non-blank lines of the CSV file (header included)
MaxStart == 2         \* largest start index of a dataset built on its own
MaxRange == 4         \* largest stop - start of a dataset built on its own
MaxIters == 2         \* full iterations made over a dataset built on its own
MaxRuns == 2          \* runs of the script made one after the other
SyntheticEpochs == 17 \* epochs of a run driven with synthetic losses
MaxLoss == 17         \* synthetic losses are 0..MaxLoss

(***************************************************************************)
(* Constants of the program.                                               *)
(***************************************************************************)
IN_CHANNELS == 14     \* Conv2d(14, ...)
OUT_CHANNELS == 56    \* Conv2d(28, 56, ...)
IN_FEATURES == 224    \* Linear(in_features=224, ...)
BOARD == 8            \* side of a board plane: 56 * (8 \div 4) * (8 \div 4) = 224
WINDOW == 15          \* len(test_losses) > 15, test_losses[-15:], counter == 15

VARIABLES
  table,                 \* the file at DATASET_PATH
  CHUNK_SIZE,            \* configuration, fixed during a run
  NUMBER_OF_EPOCHS,
  TRAIN_DATASET_LENGTH,
  TEST_DATASET_LENGTH,
  pc,                    \* position of the script (or of the dataset's user)
  error,                 \* name of the exception that ended the run, "" if none
  weights,               \* DIR_FOR_WEIGHTS, see Init
  LOG_FILE,              \* [written, flushed, synced, closed]
  DATASET_FOR_TRAIN,
  DATASET_FOR_TEST,
  MODEL,                 \* [training, steps]: mode flag, optimizer steps applied
  test_losses,
  epoch_number,
  epoch_train_loss,
  epoch_test_loss,
  seen,                  \* history of a run driven with synthetic losses
  earlier,               \* how the earlier runs of the script ended, oldest first
  dataset,               \* a ChessDataset built on its own: [start, stop, obj]
  gen,                   \* the running generator of dataset.obj.__iter__
  out,                   \* items yielded so far by the running generator
  passes                 \* the items of each finished iteration, oldest first

cfgVars == <<CHUNK_SIZE, NUMBER_OF_EPOCHS, TRAIN_DATASET_LENGTH, TEST_DATASET_LENGTH>>
runVars == <<weights, LOG_FILE, DATASET_FOR_TRAIN, DATASET_FOR_TEST, MODEL,
             test_losses, epoch_number, epoch_train_loss, epoch_test_loss>>
dsVars == <<dataset, gen, out, passes>>
vars == <<table, cfgVars, pc, error, runVars, seen, earlier, dsVars>>

None == [none |-> TRUE]

Min(a, b) == IF a < b THEN a ELSE b
Max(a, b) == IF a > b THEN a ELSE b

(***************************************************************************)
(* The CSV file.  exists: os.path.exists(DATASET_PATH).  Its lines are     *)
(* `blank` empty lines followed by `lines` non-blank lines; line numbers   *)
(* start at 0.  In a well-formed table (blank = 0) line 0 is the header    *)
(* and line r + 1 holds table row r, so a line is named by its row index   *)
(* (line number - 1).  x is the shape of the tensor the cells of a row      *)
(* before the label make: IN_CHANNELS columns of one plane each in a       *)
(* well-formed table; the other table modelled has two columns, each       *)
(* holding all the planes.                                                 *)
(***************************************************************************)
Planes == <<IN_CHANNELS, BOARD, BOARD>>

NoTable == [exists |-> FALSE, blank |-> 0, lines |-> 0, x |-> Planes]

Tables ==
  { NoTable } \cup
  [exists : {TRUE}, blank : 0..MaxBlank, lines : 0..MaxLines,
   x : {Planes, <<2>> \o Planes}]

\* pd.read_csv(path, sep='|', skiprows=skiprows, nrows=nrows): the first
\* `skiprows` lines of the file are dropped (empty or not, the header line
\* included), empty lines are ignored, the first line left is taken as the
\* header and at most `nrows` of the lines after it are the rows of the
\* frame; a file with no line left for the header raises EmptyDataError.
read_csv(tbl, skiprows, nrows) ==
  LET header == Max(skiprows, tbl.blank)
      last == tbl.blank + tbl.lines - 1
      n == Min(last - header, nrows)
  IN IF ~tbl.exists THEN [err |-> "FileNotFoundError", rows |-> <<>>]
     ELSE IF header > last THEN [err |-> "EmptyDataError", rows |-> <<>>]
     ELSE [err |-> "", rows |-> [k \in 1..n |-> header + k - 1]]

\* One (x_as_tensor, y_as_tensor) pair built from a row of the frame.
Sample(tbl, row) == [row |-> row, x |-> tbl.x, y |-> <<1, 1>>]

\* ChessDataset._get_gpu_chunk(start, stop)
get_gpu_chunk(tbl, start, stop) ==
  LET frame == read_csv(tbl, start, stop)
  IN [err |-> frame.err,
      chunk |-> [k \in 1..Len(frame.rows) |-> Sample(tbl, frame.rows[k])]]

\* ChessDataset.__init__(path, start, stop), for stop > start; CS is the
\* class attribute ChessDataset._chunk_size.
ChessDataset(tbl, CS, start, stop) ==
  LET chunk_size == IF CS > stop - start THEN stop - start ELSE CS
      is_test == ((stop - start) \div chunk_size) # 0
      loaded == IF is_test THEN get_gpu_chunk(tbl, start, stop)
                ELSE [err |-> "", chunk |-> <<>>]
  IN [err |-> loaded.err,
      obj |-> [start_index |-> start,
               stop_index |-> stop,
               chunk_size |-> chunk_size,
               is_test_dataset |-> is_test,
               test_chunk |-> loaded.chunk]]

\* ChessDataset.__len__
len(d) == d.stop_index - d.start_index

\* ChessDataset.__iter__: the number of items a full iteration yields.
num_of_items(d) ==
  IF d.is_test_dataset THEN Len(d.test_chunk)
  ELSE len(d) \div d.chunk_size

\* ChessDataset.__iter__: the i-th item (from 0) of an iteration.  A test
\* dataset yields the pairs it holds, the very objects of _test_chunk; a
\* training dataset reads a fresh chunk for every item.
item(d, tbl, i) ==
  IF d.is_test_dataset
  THEN [err |-> "", kind |-> "sample", sample |-> d.test_chunk[i + 1], chunk |-> <<>>]
  ELSE LET c == get_gpu_chunk(tbl, i * d.start_index, i * d.start_index + d.chunk_size)
       IN [err |-> c.err, kind |-> "chunk", sample |-> None, chunk |-> c.chunk]

\* ChessModel.forward(x): x.unsqueeze_(0) changes the shape of the argument
\* in place; the layers that follow accept a batch of IN_CHANNELS planes
\* whose pooled size is the input size of linear_1.
unsqueeze(shape) == <<1>> \o shape

forward(shape) ==
  LET x == unsqueeze(shape)
  IN [x |-> x,
      err |-> IF /\ Len(x) = 4
                 /\ x[2] = IN_CHANNELS
                 /\ OUT_CHANNELS * (x[3] \div 4) * (x[4] \div 4) = IN_FEATURES
              THEN "" ELSE "RuntimeError"]

(***************************************************************************)
(* Values the variables of one part of the model keep while another part   *)
(* runs.                                                                   *)
(***************************************************************************)
NoWeights == [found |-> FALSE, old |-> {}, exists |-> FALSE, files |-> {},
              saves |-> 0, clobbered |-> FALSE]
NoLog == [written |-> <<>>, flushed |-> 0, synced |-> 0, closed |-> FALSE]
NoModel == [training |-> TRUE, steps |-> 0]
NoSeen == [rising |-> TRUE, top |-> -1, below |-> FALSE]
NoDataset == [start |-> 0, stop |-> 0, obj |-> None]

RunIdle ==
  /\ weights = NoWeights
  /\ LOG_FILE = NoLog
  /\ DATASET_FOR_TRAIN = None
  /\ DATASET_FOR_TEST = None
  /\ MODEL = NoModel
  /\ test_losses = <<>>
  /\ epoch_number = 0
  /\ epoch_train_loss = 0
  /\ epoch_test_loss = 0

DsIdle ==
  /\ dataset = NoDataset
  /\ gen = 0
  /\ out = <<>>
  /\ passes = <<>>

(***************************************************************************)
(* A ChessDataset used on its own: built over a row range of a table,      *)
(* iterated MaxIters times; the user may pass every yielded sample to the  *)
(* model, as both passes of the training script do.                        *)
(***************************************************************************)
InitDS ==
  /\ table \in Tables
  /\ CHUNK_SIZE \in 1..MaxChunk
  /\ NUMBER_OF_EPOCHS = 0
  /\ TRAIN_DATASET_LENGTH = 0
  /\ TEST_DATASET_LENGTH = 0
  /\ pc = "new"
  /\ error = ""
  /\ RunIdle
  /\ seen = NoSeen
  /\ earlier = <<>>
  /\ \E start \in 0..MaxStart : \E n \in 1..MaxRange :
       dataset = [start |-> start, stop |-> start + n, obj |-> None]
  /\ gen = 0
  /\ out = <<>>
  /\ passes = <<>>

\* dataset = ChessDataset(DATASET_PATH, start, stop)
New ==
  /\ pc = "new"
  /\ error = ""
  /\ LET made == ChessDataset(table, CHUNK_SIZE, dataset.start, dataset.stop)
     IN IF made.err # ""
        THEN /\ error' = made.err
             /\ UNCHANGED <<pc, dataset>>
        ELSE /\ pc' = "idle"
             /\ dataset' = [dataset EXCEPT !.obj = made.obj]
             /\ UNCHANGED error
  /\ UNCHANGED <<table, cfgVars, runVars, seen, earlier, gen, out, passes>>

\* iter(dataset): a new generator, positioned before the first item
Iter ==
  /\ pc = "idle"
  /\ error = ""
  /\ Len(passes) < MaxIters
  /\ pc' = "iterating"
  /\ gen' = 0
  /\ out' = <<>>
  /\ UNCHANGED <<table, cfgVars, error, runVars, seen, earlier, dataset, passes>>

\* next(generator) when an item is left: the item is yielded (or reading
\* its chunk raises)
NextItem ==
  /\ pc = "iterating"
  /\ error = ""
  /\ gen < num_of_items(dataset.obj)
  /\ LET it == item(dataset.obj, table, gen)
     IN IF it.err # ""
        THEN /\ error' = it.err
             /\ UNCHANGED <<pc, gen, out>>
        ELSE /\ pc' = "yielded"
             /\ gen' = gen + 1
             /\ out' = Append(out, [kind |-> it.kind, sample |-> it.sample, chunk |-> it.chunk])
             /\ UNCHANGED error
  /\ UNCHANGED <<table, cfgVars, runVars, seen, earlier, dataset, passes>>

\* next(generator) when no item is left: the iteration is over
StopIteration ==
  /\ pc = "iterating"
  /\ error = ""
  /\ gen >= num_of_items(dataset.obj)
  /\ pc' = "idle"
  /\ passes' = Append(passes, out)
  /\ UNCHANGED <<table, cfgVars, error, runVars, seen, earlier, dataset, gen, out>>

\* The user passes the yielded input to the model: MODEL(input_data).  The
\* tensor of a test dataset is the object held in _test_chunk, so forward's
\* unsqueeze_ reshapes the held sample; the tensors of a chunk are not held
\* by the dataset.
Feed ==
  /\ pc = "yielded"
  /\ error = ""
  /\ LET d == dataset.obj
         x == IF d.is_test_dataset THEN d.test_chunk[gen].x
              ELSE table.x
         f == forward(x)
     IN /\ dataset' = IF d.is_test_dataset
                      THEN [dataset EXCEPT !.obj.test_chunk[gen].x = f.x]
                      ELSE dataset
        /\ IF f.err # ""
           THEN error' = f.err /\ UNCHANGED pc
           ELSE pc' = "iterating" /\ UNCHANGED error
  /\ UNCHANGED <<table, cfgVars, runVars, seen, earlier, gen, out, passes>>

\* The user only keeps the yielded item.
Keep ==
  /\ pc = "yielded"
  /\ error = ""
  /\ pc' = "iterating"
  /\ UNCHANGED <<table, cfgVars, error, runVars, seen, earlier, dsVars>>

NextDS == New \/ Iter \/ NextItem \/ StopIteration \/ Feed \/ Keep

SpecDS == InitDS /\ [][NextDS]_vars

(***************************************************************************)
(* The training script (the __main__ block).  pc names the statement the   *)
(* script is about to execute; an uncaught exception sets error and        *)
(* leaves pc at the statement that raised.                                 *)
(***************************************************************************)
Losses == 0..MaxLoss

\* The average of the losses of n samples: 0 / LENGTH when no sample was
\* processed, a value the model and the data decide otherwise.
AverageLoss(n) == IF n = 0 THEN {0} ELSE Losses

\* weights: found, the directory existed when the run started, holding the
\* checkpoint files old; exists and files, the directory now; saves, the
\* calls of torch.save made; clobbered, a call wrote to an existing file.
\* LOG_FILE: written, the lines written so far; flushed and synced, how many
\* of them left the buffer of the file object and reached the disk.
Init ==
  /\ table \in Tables
  /\ CHUNK_SIZE \in 1..MaxChunk
  /\ NUMBER_OF_EPOCHS \in 1..MaxEpochs
  /\ TRAIN_DATASET_LENGTH \in 1..MaxTrain
  /\ TEST_DATASET_LENGTH \in 1..MaxTest
  /\ pc = "check_weights"
  /\ error = ""
  /\ \E found \in BOOLEAN : \E old \in (IF found THEN {{}, {1}} ELSE {{}}) :
       weights = [found |-> found, old |-> old, exists |-> found, files |-> old,
                  saves |-> 0, clobbered |-> FALSE]
  /\ LOG_FILE = NoLog
  /\ DATASET_FOR_TRAIN = None
  /\ DATASET_FOR_TEST = None
  /\ MODEL = NoModel
  /\ test_losses = <<>>
  /\ epoch_number = 0
  /\ epoch_train_loss = 0
  /\ epoch_test_loss = 0
  /\ seen = NoSeen
  /\ earlier = <<>>
  /\ DsIdle

\* Variant: an existing directory is accepted (os.makedirs(..., exist_ok=True)).
CheckWeightsDirLenient ==
  /\ pc = "check_weights"
  /\ error = ""
  /\ weights' = [weights EXCEPT !.exists = TRUE]
  /\ pc' = "check_dataset"
  /\ UNCHANGED <<table, cfgVars, error, LOG_FILE, DATASET_FOR_TRAIN, DATASET_FOR_TEST,
                 MODEL, test_losses, epoch_number, epoch_train_loss, epoch_test_loss,
                 seen, earlier, dsVars>>

\* Variant: the directory is checked but not created by the check.
CheckWeightsDirNoMkdir ==
  /\ pc = "check_weights"
  /\ error = ""
  /\ IF ~weights.exists
     THEN pc' = "check_dataset" /\ UNCHANGED error
     ELSE error' = "FileExistsError" /\ UNCHANGED pc
  /\ UNCHANGED <<table, cfgVars, runVars, seen, earlier, dsVars>>

\* if not os.path.exists(DIR_FOR_WEIGHTS): os.mkdir(...) else: raise
CheckWeightsDir ==
  /\ pc = "check_weights"
  /\ error = ""
  /\ IF ~weights.exists
     THEN /\ weights' = [weights EXCEPT !.exists = TRUE]
          /\ pc' = "check_dataset"
          /\ UNCHANGED error
     ELSE /\ error' = "FileExistsError"
          /\ UNCHANGED <<pc, weights>>
  /\ UNCHANGED <<table, cfgVars, LOG_FILE, DATASET_FOR_TRAIN, DATASET_FOR_TEST, MODEL,
                 test_losses, epoch_number, epoch_train_loss, epoch_test_loss,
                 seen, earlier, dsVars>>

\* if not os.path.exists(DATASET_PATH): raise
CheckDataset ==
  /\ pc = "check_dataset"
  /\ error = ""
  /\ IF table.exists
     THEN pc' = "log_start" /\ UNCHANGED error
     ELSE error' = "FileExistsError" /\ UNCHANGED pc
  /\ UNCHANGED <<table, cfgVars, runVars, seen, earlier, dsVars>>

\* LOG_FILE.write(...): the line goes to the buffer of the file object
write(log, line) == [log EXCEPT !.written = Append(@, line)]

\* LOG_FILE.flush(): the buffered lines are handed to the operating system
flush(log) == [log EXCEPT !.flushed = Len(log.written)]

\* Variant: the epoch line is flushed but not synced.
fsync_skipped(log) == log

\* os.fsync(LOG_FILE): the lines the operating system holds reach the disk
fsync(log) == [log EXCEPT !.synced = log.flushed]

\* LOG_FILE.close(): flushes the buffer and closes the file
close(log) == [flush(log) EXCEPT !.closed = TRUE]

\* LOG_FILE.write(f"START TIME: ...")
LogStart ==
  /\ pc = "log_start"
  /\ error = ""
  /\ LOG_FILE' = write(LOG_FILE, [kind |-> "start", epoch |-> 0])
  /\ pc' = "build_train"
  /\ UNCHANGED <<table, cfgVars, error, weights, DATASET_FOR_TRAIN, DATASET_FOR_TEST,
                 MODEL, test_losses, epoch_number, epoch_train_loss, epoch_test_loss,
                 seen, earlier, dsVars>>

\* DATASET_FOR_TRAIN = ChessDataset(DATASET_PATH, start=0, stop=TRAIN_DATASET_LENGTH)
BuildTrain ==
  /\ pc = "build_train"
  /\ error = ""
  /\ LET made == ChessDataset(table, CHUNK_SIZE, 0, TRAIN_DATASET_LENGTH)
     IN IF made.err # ""
        THEN error' = made.err /\ UNCHANGED <<pc, DATASET_FOR_TRAIN>>
        ELSE /\ DATASET_FOR_TRAIN' = made.obj
             /\ pc' = "build_test"
             /\ UNCHANGED error
  /\ UNCHANGED <<table, cfgVars, weights, LOG_FILE, DATASET_FOR_TEST, MODEL,
                 test_losses, epoch_number, epoch_train_loss, epoch_test_loss,
                 seen, earlier, dsVars>>

\* DATASET_FOR_TEST = ChessDataset(DATASET_PATH, start=TRAIN_DATASET_LENGTH,
\*                                 stop=TRAIN_DATASET_LENGTH + TEST_DATASET_LENGTH)
BuildTest ==
  /\ pc = "build_test"
  /\ error = ""
  /\ LET made == ChessDataset(table, CHUNK_SIZE, TRAIN_DATASET_LENGTH,
                              TRAIN_DATASET_LENGTH + TEST_DATASET_LENGTH)
     IN IF made.err # ""
        THEN error' = made.err /\ UNCHANGED <<pc, DATASET_FOR_TEST>>
        ELSE /\ DATASET_FOR_TEST' = made.obj
             /\ pc' = "build_model"
             /\ UNCHANGED error
  /\ UNCHANGED <<table, cfgVars, weights, LOG_FILE, DATASET_FOR_TRAIN, MODEL,
                 test_losses, epoch_number, epoch_train_loss, epoch_test_loss,
                 seen, earlier, dsVars>>

\* MODEL = ChessModel().to(DEVICE); OPTIMIZER = ...; test_losses = list()
BuildModel ==
  /\ pc = "build_model"
  /\ error = ""
  /\ MODEL' = [training |-> TRUE, steps |-> 0]
  /\ test_losses' = <<>>
  /\ pc' = "loop"
  /\ UNCHANGED <<table, cfgVars, error, weights, LOG_FILE, DATASET_FOR_TRAIN,
                 DATASET_FOR_TEST, epoch_number, epoch_train_loss, epoch_test_loss,
                 seen, earlier, dsVars>>

\* for epoch_number in range(1, NUMBER_OF_EPOCHS + 1): the next epoch
\* begins; epoch_train_loss = 0; MODEL.train()
EpochBegin ==
  /\ pc = "loop"
  /\ error = ""
  /\ epoch_number < NUMBER_OF_EPOCHS
  /\ epoch_number' = epoch_number + 1
  /\ epoch_train_loss' = 0
  /\ MODEL' = [MODEL EXCEPT !.training = TRUE]
  /\ pc' = "train"
  /\ UNCHANGED <<table, cfgVars, error, weights, LOG_FILE, DATASET_FOR_TRAIN,
                 DATASET_FOR_TEST, test_losses, epoch_test_loss, seen, earlier, dsVars>>

\* input_data, target = <tensor>: a tensor unpacks into two names exactly
\* when its first dimension is 2
Unpacks(shape) == Len(shape) >= 1 /\ shape[1] = 2

\* for input_data, target in train_chunk, where train_chunk is the pair
\* (x_as_tensor, y_as_tensor) a test dataset yielded: the loop takes the
\* tensors of the pair one by one and unpacks each into input_data, target.
RECURSIVE TrainOnPair(_, _)
TrainOnPair(tensors, steps) ==
  IF tensors = <<>> THEN [err |-> "", steps |-> steps]
  ELSE IF ~Unpacks(Head(tensors)) THEN [err |-> "ValueError", steps |-> steps]
  ELSE LET f == forward(Tail(Head(tensors)))
       IN IF f.err # "" THEN [err |-> f.err, steps |-> steps]
          ELSE TrainOnPair(Tail(tensors), steps + 1)

\* for input_data, target in train_chunk, where train_chunk is a chunk (a
\* list of pairs): one forward pass and one optimizer step for each pair.
RECURSIVE TrainOnChunk(_, _)
TrainOnChunk(chunk, steps) ==
  IF chunk = <<>> THEN [err |-> "", steps |-> steps]
  ELSE LET f == forward(Head(chunk).x)
       IN IF f.err # "" THEN [err |-> f.err, steps |-> steps]
          ELSE TrainOnChunk(Tail(chunk), steps + 1)

\* for train_chunk in DATASET_FOR_TRAIN: ..., from item i on; steps counts
\* the optimizer steps applied to the model so far.
RECURSIVE TrainItems(_, _, _, _)
TrainItems(d, tbl, i, steps) ==
  IF i >= num_of_items(d) THEN [err |-> "", steps |-> steps]
  ELSE LET it == item(d, tbl, i)
           r == IF it.kind = "sample"
                THEN TrainOnPair(<<it.sample.x, it.sample.y>>, steps)
                ELSE TrainOnChunk(it.chunk, steps)
       IN IF it.err # "" THEN [err |-> it.err, steps |-> steps]
          ELSE IF r.err # "" THEN r
          ELSE TrainItems(d, tbl, i + 1, r.steps)

\* # 1. the training pass and the average of its losses
TrainingPass ==
  /\ pc = "train"
  /\ error = ""
  /\ LET r == TrainItems(DATASET_FOR_TRAIN, table, 0, MODEL.steps)
     IN /\ MODEL' = [MODEL EXCEPT !.steps = r.steps]
        /\ IF r.err # ""
           THEN error' = r.err /\ UNCHANGED <<pc, epoch_train_loss>>
           ELSE /\ epoch_train_loss' \in AverageLoss(r.steps - MODEL.steps)
                /\ pc' = "validate"
                /\ UNCHANGED error
  /\ UNCHANGED <<table, cfgVars, weights, LOG_FILE, DATASET_FOR_TRAIN, DATASET_FOR_TEST,
                 test_losses, epoch_number, epoch_test_loss, seen, earlier, dsVars>>

\* for input_data, target in DATASET_FOR_TEST: output_data = MODEL(input_data),
\* from item i on; n counts the samples processed.  The input of a test
\* dataset is the tensor held in _test_chunk, which forward reshapes in
\* place; a chunk unpacks into two names only when it has two pairs, and a
\* pair is not a tensor.
RECURSIVE ValidateItems(_, _, _, _)
ValidateItems(d, tbl, i, n) ==
  IF i >= num_of_items(d) THEN [err |-> "", d |-> d, n |-> n]
  ELSE LET it == item(d, tbl, i)
       IN IF it.err # "" THEN [err |-> it.err, d |-> d, n |-> n]
          ELSE IF it.kind = "chunk"
          THEN [err |-> IF Len(it.chunk) = 2 THEN "AttributeError" ELSE "ValueError",
                d |-> d, n |-> n]
          ELSE LET f == forward(it.sample.x)
                   held == [d EXCEPT !.test_chunk[i + 1].x = f.x]
               IN IF f.err # "" THEN [err |-> f.err, d |-> held, n |-> n]
                  ELSE ValidateItems(held, tbl, i + 1, n + 1)

\* Variant: the validation pass without MODEL.eval().
ValidationPassNoEval ==
  /\ pc = "validate"
  /\ error = ""
  /\ LET r == ValidateItems(DATASET_FOR_TEST, table, 0, 0)
     IN /\ MODEL' = MODEL
        /\ DATASET_FOR_TEST' = r.d
        /\ IF r.err # ""
           THEN error' = r.err /\ UNCHANGED <<pc, epoch_test_loss>>
           ELSE /\ epoch_test_loss' \in AverageLoss(r.n)
                /\ pc' = "log_epoch"
                /\ UNCHANGED error
  /\ UNCHANGED <<table, cfgVars, weights, LOG_FILE, DATASET_FOR_TRAIN,
                 test_losses, epoch_number, epoch_train_loss, seen, earlier, dsVars>>

\* # 2. the validation pass and the average of its losses
ValidationPass ==
  /\ pc = "validate"
  /\ error = ""
  /\ LET r == ValidateItems(DATASET_FOR_TEST, table, 0, 0)
     IN /\ MODEL' = [MODEL EXCEPT !.training = FALSE]
        /\ DATASET_FOR_TEST' = r.d
        /\ IF r.err # ""
           THEN error' = r.err /\ UNCHANGED <<pc, epoch_test_loss>>
           ELSE /\ epoch_test_loss' \in AverageLoss(r.n)
                /\ pc' = "log_epoch"
                /\ UNCHANGED error
  /\ UNCHANGED <<table, cfgVars, weights, LOG_FILE, DATASET_FOR_TRAIN,
                 test_losses, epoch_number, epoch_train_loss, seen, earlier, dsVars>>

\* # 3. LOG_FILE.write(epoch line); LOG_FILE.flush(); os.fsync(LOG_FILE)
LogEpoch ==
  /\ pc = "log_epoch"
  /\ error = ""
  /\ LOG_FILE' = fsync(flush(write(LOG_FILE, [kind |-> "epoch", epoch |-> epoch_number])))
  /\ pc' = "save"
  /\ UNCHANGED <<table, cfgVars, error, weights, DATASET_FOR_TRAIN, DATASET_FOR_TEST,
                 MODEL, test_losses, epoch_number, epoch_train_loss, epoch_test_loss,
                 seen, earlier, dsVars>>

\* Variant: one file name for every epoch.
checkpoint_name_fixed(epoch) == 1

\* f'model_epoch_{epoch_number}.pt': a checkpoint file is named by its epoch
checkpoint_name(epoch) == epoch

\* Variant: the checkpoint is not written before the overfitting test.
SaveWeightsLate ==
  /\ pc = "save"
  /\ error = ""
  /\ pc' = "overfit_test"
  /\ UNCHANGED <<table, cfgVars, error, runVars, seen, earlier, dsVars>>

\* torch.save(MODEL.state_dict(), os.path.join(DIR_FOR_WEIGHTS, ...))
SaveWeights ==
  /\ pc = "save"
  /\ error = ""
  /\ weights' = [weights EXCEPT
                   !.files = @ \cup {checkpoint_name(epoch_number)},
                   !.saves = @ + 1,
                   !.clobbered = @ \/ checkpoint_name(epoch_number) \in weights.files]
  /\ pc' = "overfit_test"
  /\ UNCHANGED <<table, cfgVars, error, LOG_FILE, DATASET_FOR_TRAIN, DATASET_FOR_TEST,
                 MODEL, test_losses, epoch_number, epoch_train_loss, epoch_test_loss,
                 seen, earlier, dsVars>>

\* test_losses[-15:]
Trailing(losses) ==
  SubSeq(losses, Max(1, Len(losses) - WINDOW + 1), Len(losses))

\* # 4. the overfitting test
OverfittingTest ==
  /\ pc = "overfit_test"
  /\ error = ""
  /\ IF Len(test_losses) > WINDOW
     THEN LET tail == Trailing(test_losses)
              counter == Cardinality({k \in 1..Len(tail) : tail[k] < epoch_test_loss})
          IN IF counter = WINDOW
             THEN /\ error' = "Exception"
                  /\ UNCHANGED <<pc, test_losses>>
             ELSE /\ test_losses' = Append(test_losses, epoch_test_loss)
                  /\ pc' = "loop"
                  /\ UNCHANGED error
     ELSE /\ pc' = "loop"
          /\ UNCHANGED <<error, test_losses>>
  /\ UNCHANGED <<table, cfgVars, weights, LOG_FILE, DATASET_FOR_TRAIN, DATASET_FOR_TEST,
                 MODEL, epoch_number, epoch_train_loss, epoch_test_loss, seen, earlier, dsVars>>

\* the loop is over: LOG_FILE.write(f"STOP TIME: ...")
LogStop ==
  /\ pc = "loop"
  /\ error = ""
  /\ epoch_number >= NUMBER_OF_EPOCHS
  /\ LOG_FILE' = write(LOG_FILE, [kind |-> "stop", epoch |-> 0])
  /\ pc' = "close"
  /\ UNCHANGED <<table, cfgVars, error, weights, DATASET_FOR_TRAIN, DATASET_FOR_TEST,
                 MODEL, test_losses, epoch_number, epoch_train_loss, epoch_test_loss,
                 seen, earlier, dsVars>>

\* LOG_FILE.close()
LogClose ==
  /\ pc = "close"
  /\ error = ""
  /\ LOG_FILE' = close(LOG_FILE)
  /\ pc' = "done"
  /\ UNCHANGED <<table, cfgVars, error, weights, DATASET_FOR_TRAIN, DATASET_FOR_TEST,
                 MODEL, test_losses, epoch_number, epoch_train_loss, epoch_test_loss,
                 seen, earlier, dsVars>>

Next ==
  \/ CheckWeightsDir \/ CheckDataset \/ LogStart \/ BuildTrain \/ BuildTest
  \/ BuildModel \/ EpochBegin \/ TrainingPass \/ ValidationPass \/ LogEpoch
  \/ SaveWeights \/ OverfittingTest \/ LogStop \/ LogClose

Spec == Init /\ [][Next]_vars

(***************************************************************************)
(* The script run again: after a run has ended the script is started once  *)
(* more with the same configuration.  The weights directory is as the run  *)
(* left it, the table may have been supplied in the meantime, the log is a *)
(* new file and every object of the script is new.                         *)
(***************************************************************************)
Supplied == [exists |-> TRUE, blank |-> 0, lines |-> MaxLines, x |-> Planes]

Rerun ==
  /\ error # "" \/ pc = "done"
  /\ Len(earlier) < MaxRuns - 1
  /\ earlier' = Append(earlier, [error |-> error, pc |-> pc, found |-> weights.found,
                                 epochs |-> epoch_number])
  /\ table' \in {table, Supplied}
  /\ weights' = [found |-> weights.exists, old |-> weights.files,
                 exists |-> weights.exists, files |-> weights.files,
                 saves |-> 0, clobbered |-> FALSE]
  /\ pc' = "check_weights"
  /\ error' = ""
  /\ LOG_FILE' = NoLog
  /\ DATASET_FOR_TRAIN' = None
  /\ DATASET_FOR_TEST' = None
  /\ MODEL' = NoModel
  /\ test_losses' = <<>>
  /\ epoch_number' = 0
  /\ epoch_train_loss' = 0
  /\ epoch_test_loss' = 0
  /\ UNCHANGED <<cfgVars, seen, dsVars>>

NextRuns == Next \/ Rerun

SpecRuns == Init /\ [][NextRuns]_vars

(***************************************************************************)
(* The epoch loop driven with synthetic validation losses: the passes of   *)
(* an epoch are replaced by the choice of the epoch's validation loss, and *)
(* the overfitting test is the one of the script.  seen records the        *)
(* history of the losses: rising, all losses so far are strictly           *)
(* increasing; top, the greatest loss so far; below, the last loss is      *)
(* lower than at least one loss before it.                                 *)
(***************************************************************************)
InitLoop ==
  /\ table = NoTable
  /\ CHUNK_SIZE = 0
  /\ NUMBER_OF_EPOCHS = SyntheticEpochs
  /\ TRAIN_DATASET_LENGTH = 0
  /\ TEST_DATASET_LENGTH = 0
  /\ pc = "loop"
  /\ error = ""
  /\ RunIdle
  /\ seen = NoSeen
  /\ earlier = <<>>
  /\ DsIdle

SyntheticEpoch ==
  /\ pc = "loop"
  /\ error = ""
  /\ epoch_number < NUMBER_OF_EPOCHS
  /\ epoch_number' = epoch_number + 1
  /\ \E loss \in Losses :
       /\ epoch_test_loss' = loss
       /\ seen' = [rising |-> seen.rising /\ loss > seen.top,
                   top |-> Max(seen.top, loss),
                   below |-> loss < seen.top]
  /\ pc' = "overfit_test"
  /\ UNCHANGED <<table, cfgVars, error, weights, LOG_FILE, DATASET_FOR_TRAIN,
                 DATASET_FOR_TEST, MODEL, test_losses, epoch_train_loss, earlier,
                 dsVars>>

NextLoop == SyntheticEpoch \/ OverfittingTest

SpecLoop == InitLoop /\ [][NextLoop]_vars

(***************************************************************************)
(* Properties of a ChessDataset used on its own (SpecDS).                  *)
(***************************************************************************)
\* The table is well formed and has at least n rows.
HasRows(tbl, n) ==
  tbl.exists /\ tbl.blank = 0 /\ tbl.x = Planes /\ tbl.lines - 1 >= n

\* The rows [start, stop) of the table, in table order.
RangeRows(start, stop) == [k \in 1..(stop - start) |-> start + k - 1]

\* The rows of the samples of a sequence of samples.
RowsOf(samples) == [k \in 1..Len(samples) |-> samples[k].row]

\* The samples yielded inside the chunks of an iteration, in order.
RECURSIVE InChunks(_)
InChunks(items) ==
  IF items = <<>> THEN <<>>
  ELSE (IF Head(items).kind = "chunk" THEN Head(items).chunk ELSE <<>>)
       \o InChunks(Tail(items))

Built == dataset.obj # None

\* C2: a built dataset is in training mode (no range parsed at
\* construction, iteration yields chunks) exactly when stop - start is
\* greater than the configured chunk size, and in evaluation mode exactly
\* when stop - start is at most the configured chunk size.
C2_ModeFollowsRangeLength ==
  Built =>
    /\ dataset.obj.is_test_dataset <=> (dataset.stop - dataset.start <= CHUNK_SIZE)
    /\ \A p \in 1..Len(passes) : \A k \in 1..Len(passes[p]) :
         (passes[p][k].kind = "chunk") <=> (dataset.stop - dataset.start > CHUNK_SIZE)

\* C3: over a range no longer than the chunk size, on a table with at least
\* stop rows, the dataset is in evaluation mode and a full iteration yields
\* exactly the rows of [start, stop) as single samples, in table order.
C3_EvaluationYieldsTheRange ==
  (/\ Len(passes) >= 1
   /\ dataset.stop - dataset.start <= CHUNK_SIZE
   /\ HasRows(table, dataset.stop))
  => /\ dataset.obj.is_test_dataset
     /\ \A k \in 1..Len(passes[1]) : passes[1][k].kind = "sample"
     /\ [k \in 1..Len(passes[1]) |-> passes[1][k].sample.row]
          = RangeRows(dataset.start, dataset.stop)

\* C4: over a training range (longer than the chunk size), on a table with
\* at least stop rows, the samples yielded across the chunks of one full
\* iteration are exactly the rows of [start, stop), each once.
C4_ChunksCoverTheRange ==
  (/\ Len(passes) >= 1
   /\ dataset.stop - dataset.start > CHUNK_SIZE
   /\ HasRows(table, dataset.stop))
  => RowsOf(InChunks(passes[1])) = RangeRows(dataset.start, dataset.stop)

\* C7: two successive full iterations over the same dataset yield identical
\* sequences of samples, whatever the user did with the samples in between.
C7_IterationIsRepeatable ==
  Len(passes) >= 2 => passes[1] = passes[2]

(***************************************************************************)
(* Properties of the epoch loop driven with synthetic losses (SpecLoop).   *)
(***************************************************************************)
\* C1: when the validation losses of the first 16 epochs are strictly
\* increasing, the overfitting test of the 16th epoch ends the run with the
\* overfitting exception; when the 16th loss is lower than at least one of
\* the 15 before it, the run goes on to the next epoch.
C1_GuardFiresOnTheSixteenthRisingLoss ==
  (epoch_number = WINDOW + 1 /\ (pc = "loop" \/ error # ""))
  => /\ seen.rising => error = "Exception"
     /\ seen.below => error = ""

(***************************************************************************)
(* Properties of the training script (Spec).                               *)
(***************************************************************************)
\* The number of epochs whose checkpoint step is behind the script.
Completed ==
  IF pc \in {"train", "validate", "log_epoch", "save"} THEN epoch_number - 1
  ELSE epoch_number

\* The positions of the epoch lines in the log.
EpochLines == {i \in 1..Len(LOG_FILE.written) : LOG_FILE.written[i].kind = "epoch"}

\* The position of the last epoch line in the log, 0 if there is none.
LastEpochLine == IF EpochLines = {} THEN 0
                 ELSE CHOOSE i \in EpochLines : \A j \in EpochLines : j <= i

Ended == error # "" \/ pc = "done"

\* C5: in every state of a run the directory holds, besides what it held
\* when the run started, exactly the checkpoints of the completed epochs
\* 1..k, each written by one save and named by its epoch, and no save
\* wrote to a file that existed.
C5_OneCheckpointPerCompletedEpoch ==
  /\ weights.files = weights.old \cup 1..Completed
  /\ weights.saves = Completed
  /\ ~weights.clobbered

C5_Witness == weights.saves >= 2 /\ weights.files = {1, 2}

\* C6: when the checkpoint directory exists or the table is missing at the
\* start, the run never leaves the setup checks: no epoch begins, no
\* optimizer step is taken, no checkpoint and no epoch line is written.
C6_SetupFailureLeavesNothing ==
  (weights.found \/ ~table.exists)
  => /\ pc \in {"check_weights", "check_dataset"}
     /\ epoch_number = 0
     /\ MODEL.steps = 0
     /\ weights.saves = 0
     /\ weights.files = weights.old
     /\ EpochLines = {}

C6_Witness ==
  /\ ~weights.found
  /\ ~table.exists
  /\ weights.exists
  /\ pc = "check_dataset"
  /\ error = "FileExistsError"

\* The failures of setup and of reading the table.
SetupOrReadFailures == {"FileExistsError", "FileNotFoundError", "EmptyDataError"}

\* C8: a run that passes setup and meets no failure of reading the table
\* ends either after exactly NUMBER_OF_EPOCHS epochs, the stop timestamp
\* being the last line of the log, or with the overfitting exception.
C8_RunEndsByCompletionOrOverfitting ==
  /\ (error # "" /\ error \notin SetupOrReadFailures) => error = "Exception"
  /\ pc = "done" =>
       /\ Completed = NUMBER_OF_EPOCHS
       /\ Cardinality(EpochLines) = NUMBER_OF_EPOCHS
       /\ LOG_FILE.written[Len(LOG_FILE.written)].kind = "stop"

\* C9 as claimed: in every state every line written to the log has been
\* flushed and synced.
C9_EveryLineIsSynced ==
  /\ LOG_FILE.flushed = Len(LOG_FILE.written)
  /\ LOG_FILE.synced = Len(LOG_FILE.written)

\* C9 as amended: in every state the lines that reached the disk are the
\* lines up to the last epoch line, so every epoch line is flushed and
\* synced before the next step, while the start timestamp before the first
\* epoch line and the stop timestamp are not synced.
C9_EpochLinesAreSynced ==
  /\ LOG_FILE.synced = LastEpochLine
  /\ LOG_FILE.flushed >= LOG_FILE.synced

C9_Witness ==
  /\ pc = "save"
  /\ epoch_number = 2
  /\ LOG_FILE.synced = 3

\* C10: a run of one epoch on a table that has the rows of both ranges,
\* with a fresh checkpoint directory and a training range longer than the
\* chunk size, ends without exception, with one epoch line in the log and
\* one checkpoint file.
C10_SingleEpochRunCompletes ==
  (/\ NUMBER_OF_EPOCHS = 1
   /\ ~weights.found
   /\ TRAIN_DATASET_LENGTH > CHUNK_SIZE
   /\ HasRows(table, TRAIN_DATASET_LENGTH + TEST_DATASET_LENGTH)
   /\ Ended)
  => /\ error = ""
     /\ Cardinality(EpochLines) = 1
     /\ weights.files = {1}

(***************************************************************************)
(* Further properties of the epoch loop driven with synthetic losses       *)
(* (SpecLoop) and of a ChessDataset used on its own (SpecDS).              *)
(***************************************************************************)
\* C11: whenever the loop is between two epochs, the retained history
\* holds one loss for each epoch that has ended so far (k losses after k
\* epochs), the last of them being the validation loss of the last epoch.
C11_HistoryGainsEveryEpochLoss ==
  (pc = "loop" /\ error = "")
  => /\ Len(test_losses) = epoch_number
     /\ epoch_number > 0 => test_losses[Len(test_losses)] = epoch_test_loss

\* C12: over a training range (longer than the chunk size), on a table with
\* at least stop rows, every item an iteration yields is a chunk of exactly
\* chunk-size samples, and chunk number i (from 0) holds the rows
\* [start + i * chunk_size, start + (i + 1) * chunk_size).
C12_ChunksAreContiguousSubranges ==
  (/\ Built
   /\ dataset.stop - dataset.start > CHUNK_SIZE
   /\ HasRows(table, dataset.stop))
  => \A k \in 1..Len(out) :
       /\ out[k].kind = "chunk"
       /\ Len(out[k].chunk) = CHUNK_SIZE
       /\ RowsOf(out[k].chunk)
            = RangeRows(dataset.start + (k - 1) * CHUNK_SIZE,
                        dataset.start + k * CHUNK_SIZE)

(***************************************************************************)
(* Further properties of the training script (Spec).                       *)
(***************************************************************************)
\* C13: the count of optimizer steps applied to the model changes only in
\* a step of the training pass, where it grows while the model is in
\* training mode before and after; the step of the validation pass leaves
\* the count unchanged and ends with the model in evaluation mode.
C13_ParametersChangeOnlyInTraining ==
  [][/\ MODEL'.steps # MODEL.steps
          => /\ pc = "train"
             /\ MODEL'.steps > MODEL.steps
             /\ MODEL.training /\ MODEL'.training
     /\ pc = "validate"
          => /\ MODEL'.steps = MODEL.steps
             /\ ~MODEL'.training]_vars

C13_Witness ==
  /\ pc = "train"
  /\ MODEL.steps >= 1
  /\ MODEL.training

\* The log holds the line of epoch e.
HasEpochLine(e) == \E i \in EpochLines : LOG_FILE.written[i].epoch = e

\* The log holds a stop timestamp.
HasStopLine ==
  \E i \in 1..Len(LOG_FILE.written) : LOG_FILE.written[i].kind = "stop"

\* C14: within an epoch the passes come first (neither the line nor the
\* checkpoint of the epoch exists before the log step), then the epoch
\* line (it exists, the checkpoint does not, before the save step), then
\* the checkpoint (both exist before the overfitting test); a run ended by
\* the overfitting exception stands at the overfitting test, so it has the
\* line and the checkpoint of its epoch, and its log has no stop timestamp.
C14_EpochStepsAreOrdered ==
  /\ pc \in {"train", "validate", "log_epoch"}
       => /\ ~HasEpochLine(epoch_number)
          /\ checkpoint_name(epoch_number) \notin weights.files
  /\ pc = "train" => MODEL.training
  /\ pc \in {"log_epoch", "save", "overfit_test"} => ~MODEL.training
  /\ pc = "save"
       => /\ HasEpochLine(epoch_number)
          /\ checkpoint_name(epoch_number) \notin weights.files
  /\ pc = "overfit_test"
       => /\ HasEpochLine(epoch_number)
          /\ checkpoint_name(epoch_number) \in weights.files
  /\ error = "Exception" => (pc = "overfit_test" /\ ~HasStopLine)

C14_Witness ==
  /\ pc = "overfit_test"
  /\ epoch_number = 2
  /\ HasEpochLine(2)
  /\ weights.files = {1, 2}

(***************************************************************************)
(* Properties of the script run again (SpecRuns).                          *)
(***************************************************************************)
\* The last earlier run found no weights directory and ended on the
\* missing table.
LastRunMissedTable ==
  /\ earlier # <<>>
  /\ ~earlier[Len(earlier)].found
  /\ earlier[Len(earlier)].pc = "check_dataset"
  /\ earlier[Len(earlier)].error = "FileExistsError"

\* C15: a run that found no weights directory and fails on the missing
\* table has created the directory and leaves it, empty; the run started
\* after it finds the directory and never gets past the directory check,
\* whatever the table is by then, although no epoch was trained.
C15_FailedSetupBlocksTheNextRun ==
  /\ (pc = "check_dataset" /\ error # "")
       => /\ ~table.exists
          /\ weights.exists
          /\ weights.files = weights.old
          /\ epoch_number = 0
  /\ LastRunMissedTable
       => /\ earlier[Len(earlier)].epochs = 0
          /\ weights.found
          /\ weights.files = {}
          /\ pc = "check_weights"
          /\ error \in {"", "FileExistsError"}
          /\ epoch_number = 0

C15_Witness ==
  /\ LastRunMissedTable
  /\ table.exists
  /\ pc = "check_weights"
  /\ error = "FileExistsError"

====
